---- MODULE Spec2Model ----
(***************************************************************************)
(* A model of tr4hd/data_utils.py: the training and validation example     *)
(* set builders (make_train_set, make_dev_set), the buffered negative      *)
(* sampler (sample_negative_examples), the labelled dataset assembler      *)
(* (make_q_and_c_dataset) and the checkpoint retention utility             *)
(* (rotate_checkpoints).                                                   *)
(*                                                                         *)
(* Python lists are sequences (1-based here, 0-based in the source; the    *)
(* candidate ids themselves keep their 0-based values).  A query string    *)
(* and a candidate string carry no behaviour in these functions, so the    *)
(* query list is represented by its length and the candidate pool by its   *)
(* size.                                                                   *)
(***************************************************************************)
EXTENDS Integers, Sequences, FiniteSets, TLC

VARIABLES
    pc,                     \* position of the running call
    nb_candidates,          \* len(train_data["candidates"]) / len(candidate_ids)
    nb_queries,             \* len(queries)
    gold_cand_ids,          \* train_data["gold_hypernym_candidate_ids"] (pos_candidate_ids)
    per_query_nb_examples,  \* opt.per_query_nb_examples
    ratio_num,              \* max_pos_ratio = ratio_num / RatioDen
    sampled_indices,        \* the shared buffer of random indices
    buffer_index,           \* 0-based cursor into sampled_indices
    i,                      \* 0-based index of the query being sampled for
    neg,                    \* negatives accepted so far for query i
    neg_candidate_ids,      \* negatives of the completed queries
    cand_ids,               \* per-query candidate id tuples built by the caller
    labels,                 \* per-query label tuples built by the caller
    outcome,                \* what the finished call returned or raised
    epoch,                  \* number of make_train_set calls completed or running
    gold_loaded,            \* history: the gold lists as first loaded
    gold_at_call,           \* history: the gold lists on entry of the running call
    gold_first_kept,        \* history: the gold lists left by the first call
    heap,                   \* make_dev_set: the list objects, by address
    candidate_ids,          \* make_q_and_c_dataset: argument candidate_ids
    candidate_labels,       \* make_q_and_c_dataset: argument candidate_labels
    verbose,                \* make_q_and_c_dataset: argument verbose
    checkpoints,            \* rotate_checkpoints: the paths glob returns, with their mtime
    save_total_limit,       \* rotate_checkpoints: argument save_total_limit
    use_mtime,              \* rotate_checkpoints: argument use_mtime
    deleted                 \* rotate_checkpoints: the paths given to shutil.rmtree, in order

vars == <<pc, nb_candidates, nb_queries, gold_cand_ids, per_query_nb_examples,
          ratio_num, sampled_indices, buffer_index, i, neg, neg_candidate_ids,
          cand_ids, labels, outcome, epoch, gold_loaded, gold_at_call,
          gold_first_kept, heap, candidate_ids, candidate_labels, verbose,
          checkpoints, save_total_limit, use_mtime, deleted>>

\* The variables of one function's run that the runs of the others leave alone.
assembler_vars == <<candidate_ids, candidate_labels, verbose>>

rotate_vars == <<checkpoints, save_total_limit, use_mtime, deleted>>

sampler_vars == <<sampled_indices, buffer_index, i, neg, neg_candidate_ids>>

train_vars == <<gold_cand_ids, per_query_nb_examples, ratio_num, cand_ids,
                labels, epoch, gold_loaded, gold_at_call, gold_first_kept>>

----------------------------------------------------------------------------
(* Bounds of the model.                                                    *)

MaxCand == 3        \* candidate pool sizes 0..MaxCand
MaxQueries == 2     \* query counts, and line counts of the gold file
MaxGoldLen == 2     \* hypernyms on one line of the gold file
MaxBudget == 2      \* per_query_nb_examples of make_train_set, 0..MaxBudget
MaxSampleBudget == 3  \* budgets of direct sampler calls, 0..MaxSampleBudget
MaxEpochs == 2      \* make_train_set calls on the same train_data
MaxDatasetQueries == 3  \* list lengths of direct make_q_and_c_dataset calls
MaxListLen == 1     \* candidates per query of direct make_q_and_c_dataset calls
MaxStep == 4        \* checkpoints {prefix}-1 .. {prefix}-MaxStep
MaxMTime == 2       \* modification times 1..MaxMTime
MaxLimit == 3       \* save_total_limit in -1..MaxLimit
\* The source draws 1000000 indices at a time (data_utils.py:125); the model
\* keeps the same refill logic over a buffer short enough to be exhausted.
buffer_size == 2
\* max_pos_ratio ranges over the fractions k / RatioDen.
RatioDen == 4

\* candidate_labels=None, and candidate_labels given as a list of lists.
NoLabels == [none |-> TRUE, lists |-> <<>>]

WithLabels(l) == [none |-> FALSE, lists |-> l]

\* The variables a run does not use stay at these values.
IdleDev == heap = <<>>

IdleAssembler ==
    /\ candidate_ids = <<>>
    /\ candidate_labels = NoLabels
    /\ verbose = FALSE

IdleRotate ==
    /\ checkpoints = <<>>
    /\ save_total_limit = 0
    /\ use_mtime = FALSE
    /\ deleted = <<>>

----------------------------------------------------------------------------
(* Helpers standing for Python built-ins.                                  *)

Range(s) == {s[k] : k \in 1..Len(s)}

Min(a, b) == IF a < b THEN a ELSE b

Max(a, b) == IF a > b THEN a ELSE b

\* np.random.shuffle(s): every reordering of s is a possible result.
Shuffles(s) ==
    {[k \in 1..Len(s) |-> s[p[k]]] : p \in Permutations(1..Len(s))}

\* One shuffle per list of a list of lists.
ShuffleEach(ls) ==
    {f \in [1..Len(ls) -> UNION {Shuffles(ls[q]) : q \in 1..Len(ls)}] :
        \A q \in 1..Len(ls) : f[q] \in Shuffles(ls[q])}

\* load_hd_data, lines 332-339: the g_id_list of one line of the gold file.
\* line.strip().split("\t") never gives an empty list, and every hypernym is
\* looked up in candidate2id, so the list holds at least one id of the pool;
\* ids stay in file order and a hypernym named twice is listed twice.
IdLists(n) ==
    UNION {[1..len -> 0..(n - 1)] : len \in 1..MaxGoldLen}

\* load_hd_data, lines 330-340: one g_id_list per line of the gold file,
\* however many queries the queries file holds.
gold_hypernym_candidate_ids(n) ==
    UNION {[1..nb_lines -> IdLists(n)] : nb_lines \in 0..MaxQueries}

\* The pos_candidate_ids a caller may pass to sample_negative_examples: any
\* list of lists of pool ids; make_train_set passes lists it has truncated,
\* which can be empty.
PosLists(n) ==
    UNION {[1..nb_lists -> IdLists(n) \cup {<<>>}] : nb_lists \in 0..MaxQueries}

\* sum(1 for x in s if x == v)
RECURSIVE Count(_, _)
Count(s, v) ==
    IF s = <<>> THEN 0
    ELSE (IF Head(s) = v THEN 1 ELSE 0) + Count(Tail(s), v)

\* The concatenation of a list of lists, in order.
RECURSIVE Flatten(_)
Flatten(ls) ==
    IF ls = <<>> THEN <<>> ELSE Head(ls) \o Flatten(Tail(ls))

----------------------------------------------------------------------------
(* make_q_and_c_dataset (data_utils.py:236-293).                           *)
(* queries is given by its length nq; c_ids is the list of per-query       *)
(* candidate id lists; c_labels is NoLabels (None) or WithLabels(l) for    *)
(* the list l of per-query label lists.  The result records what the call returned or raised, and how    *)
(* far it got: the number of labels examined and of queries encoded.       *)

\* The number of worked examples the verbose path logs: range(5).
NbLoggedExamples == 5

Raise(error, line, detail, examined, encoded) ==
    [kind |-> "raise", error |-> error, line |-> line, detail |-> detail,
     labels_examined |-> examined, encoded |-> encoded]

\* nb_candidates_fd as the list of (length, count) pairs in the order the
\* lengths are first met (the insertion order of the dict).
RECURSIVE FirstLengths(_, _)
FirstLengths(c_ids, seen) ==
    IF c_ids = <<>> THEN <<>>
    ELSE IF Len(Head(c_ids)) \in seen THEN FirstLengths(Tail(c_ids), seen)
    ELSE <<Len(Head(c_ids))>> \o
         FirstLengths(Tail(c_ids), seen \cup {Len(Head(c_ids))})

\* Mutant: a length already in the dict is not counted again.
nb_candidates_fd_uncounted(c_ids) ==
    LET ks == FirstLengths(c_ids, {})
    IN  [n \in 1..Len(ks) |-> <<ks[n], 1>>]

nb_candidates_fd(c_ids) ==
    LET ks == FirstLengths(c_ids, {})
    IN  [n \in 1..Len(ks) |->
            <<ks[n], Cardinality({q \in 1..Len(c_ids) : Len(c_ids[q]) = ks[n]})>>]

\* if candidate_labels: (None and the empty list are both false)
Truthy(c_labels) == ~c_labels.none /\ c_labels.lists # <<>>

\* Mutant: the scan goes on after an unrecognized label and reports the last.
LastBadLabel(flat) ==
    IF \E k \in 1..Len(flat) : flat[k] \notin {0, 1}
    THEN CHOOSE k \in 1..Len(flat) :
            /\ flat[k] \notin {0, 1}
            /\ \A m \in (k + 1)..Len(flat) : flat[m] \in {0, 1}
    ELSE 0

\* The position in the flattened label list of the first label that is
\* neither 1 nor 0, or 0 when there is none.
FirstBadLabel(flat) ==
    IF \E k \in 1..Len(flat) : flat[k] \notin {0, 1}
    THEN CHOOSE k \in 1..Len(flat) :
            /\ flat[k] \notin {0, 1}
            /\ \A m \in 1..(k - 1) : flat[m] \in {0, 1}
    ELSE 0

\* Lines 282-290: the first exception of the example-logging loop, if any.
LogExamples(nq, c_labels) ==
    IF nq = 0 THEN "IndexError"                \* queries[0]
    ELSE IF c_labels.none THEN "TypeError"     \* candidate_labels[0]
    ELSE IF nq < NbLoggedExamples THEN "IndexError"   \* queries[nq]
    ELSE "ok"

make_q_and_c_dataset(nq, c_ids, c_labels, is_verbose) ==
    LET fd == nb_candidates_fd(c_ids)
        flat == IF Truthy(c_labels) THEN Flatten(c_labels.lists) ELSE <<>>
        bad == FirstBadLabel(flat)
    IN  IF nq # Len(c_ids) THEN
            Raise("AssertionError", 249, <<>>, 0, 0)
        ELSE IF Len(fd) > 1 THEN
            Raise("ValueError", 259, fd, 0, 0)
        ELSE IF bad # 0 THEN
            Raise("ValueError", 272, <<flat[bad]>>, bad, 0)
        ELSE IF is_verbose /\ LogExamples(nq, c_labels) # "ok" THEN
            Raise(LogExamples(nq, c_labels),
                  IF c_labels.none /\ nq > 0 THEN 290 ELSE 286,
                  <<>>, Len(flat), nq)
        ELSE IF c_labels.none THEN
            \* torch.tensor(None, dtype=torch.float32) cannot build a tensor
            Raise("TypeError", 292, <<>>, 0, nq)
        ELSE
            [kind |-> "dataset", nb_examples |-> nq, candidate_ids |-> c_ids,
             candidate_labels |-> c_labels.lists,
             labels_examined |-> Len(flat), encoded |-> nq]

\* What the caller of make_q_and_c_dataset observes: the dataset or the
\* exception, without the record of how far the call got.
Observed(o) ==
    IF o.kind = "dataset"
    THEN <<"dataset", o.nb_examples, o.candidate_ids, o.candidate_labels>>
    ELSE <<"raise", o.error, o.line, o.detail>>

----------------------------------------------------------------------------
(* sample_negative_examples (data_utils.py:113-145), one action per loop   *)
(* step.  candidate_ids is list(range(nb_candidates)) in make_train_set,   *)
(* so candidate_ids[k] = k.                                                *)

\* np.random.randint(n, size=buffer_size): any buffer of indices below n.
RandomBuffers(n) == [1..buffer_size -> 0..(n - 1)]

\* nb_queries = len(pos_candidate_ids) (line 127): the sampler loops over
\* the lists of positives, not over the queries.
nb_pos_lists == Len(gold_cand_ids)

\* pos and pos_set of the query being sampled for (lines 131-132).
pos == gold_cand_ids[i + 1]

pos_set == Range(pos)

\* nb_neg = max(0, per_query_nb_examples - len(pos)) (line 133)
nb_neg == Max(0, per_query_nb_examples - Len(pos))

\* The index the loop body reads at line 136.
sampled_index == sampled_indices[buffer_index + 1]

\* Mutant: pos_set is built once, from the first query, outside the loop.
AcceptedStale(c) == c \notin Range(gold_cand_ids[1])

\* Mutant: the membership test is inverted.
AcceptedInverted(c) == c \in pos_set

\* Line 142: the test that lets a drawn id into neg.
Accepted(c) == c \notin pos_set

\* Lines 122-129 once the first buffer is drawn.
EnterSampler(buffer) ==
    /\ sampled_indices' = buffer
    /\ buffer_index' = 0
    /\ i' = 0
    /\ neg' = <<>>
    /\ neg_candidate_ids' = <<>>

\* The locals of sample_negative_examples are gone once it has returned.
LeaveSampler ==
    /\ sampled_indices' = <<>>
    /\ buffer_index' = 0
    /\ i' = 0
    /\ neg' = <<>>

\* Lines 135-143: one iteration of the rejection loop.
Draw ==
    /\ pc = "sampling"
    /\ i < nb_pos_lists
    /\ Len(neg) < nb_neg
    /\ IF buffer_index + 1 = buffer_size
       THEN /\ sampled_indices' \in RandomBuffers(nb_candidates)
            /\ buffer_index' = 0
       ELSE /\ buffer_index' = buffer_index + 1
            /\ UNCHANGED sampled_indices
    /\ neg' = IF Accepted(sampled_index) THEN Append(neg, sampled_index) ELSE neg
    /\ UNCHANGED <<pc, nb_candidates, nb_queries, gold_cand_ids,
                   per_query_nb_examples, ratio_num, i, neg_candidate_ids,
                   cand_ids, labels, outcome, epoch, gold_at_call,
                   gold_first_kept, gold_loaded, heap,
                   assembler_vars, rotate_vars>>

\* Lines 130-134 and 144: the while loop is left, neg is stored and the for
\* loop moves to the next query.
NextQuery ==
    /\ pc = "sampling"
    /\ i < nb_pos_lists
    /\ Len(neg) >= nb_neg
    /\ neg_candidate_ids' = Append(neg_candidate_ids, neg)
    /\ neg' = <<>>
    /\ i' = i + 1
    /\ UNCHANGED <<pc, nb_candidates, nb_queries, gold_cand_ids,
                   per_query_nb_examples, ratio_num, sampled_indices,
                   buffer_index, cand_ids, labels, outcome, epoch,
                   gold_at_call, gold_first_kept, gold_loaded, heap,
                   assembler_vars, rotate_vars>>

\* A direct call of sample_negative_examples(list(range(n)), pos, budget).
SampleCall ==
    /\ pc = "start"
    /\ IF nb_candidates = 0
       THEN \* np.random.randint(0, size=...) raises ValueError (line 126)
            /\ pc' = "raised"
            /\ outcome' = Raise("ValueError", 126, <<>>, 0, 0)
            /\ UNCHANGED <<sampled_indices, buffer_index, i, neg,
                           neg_candidate_ids>>
       ELSE /\ pc' = "sampling"
            /\ \E buffer \in RandomBuffers(nb_candidates) : EnterSampler(buffer)
            /\ UNCHANGED outcome
    /\ UNCHANGED <<nb_candidates, nb_queries, gold_cand_ids,
                   per_query_nb_examples, ratio_num, cand_ids, labels, epoch,
                   gold_at_call, gold_first_kept, gold_loaded, heap,
                   assembler_vars, rotate_vars>>

\* Line 145.
SampleReturn ==
    /\ pc = "sampling"
    /\ i = nb_pos_lists
    /\ pc' = "returned"
    /\ outcome' = [kind |-> "negatives", value |-> neg_candidate_ids]
    /\ LeaveSampler
    /\ UNCHANGED <<nb_candidates, nb_queries, gold_cand_ids,
                   per_query_nb_examples, ratio_num, neg_candidate_ids,
                   cand_ids, labels, epoch, gold_at_call, gold_first_kept, gold_loaded, heap,
                   assembler_vars, rotate_vars>>

\* The inputs of a direct call: a pool size, one list of positive ids per
\* query and a budget.
InitSample ==
    /\ pc = "start"
    /\ nb_candidates \in 0..MaxCand
    /\ gold_cand_ids \in PosLists(nb_candidates)
    /\ nb_queries = Len(gold_cand_ids)
    /\ per_query_nb_examples \in 0..MaxSampleBudget
    /\ ratio_num = RatioDen
    /\ sampled_indices = <<>>
    /\ buffer_index = 0
    /\ i = 0
    /\ neg = <<>>
    /\ neg_candidate_ids = <<>>
    /\ cand_ids = <<>>
    /\ labels = <<>>
    /\ outcome = [kind |-> "none"]
    /\ epoch = 0
    /\ gold_loaded = gold_cand_ids
    /\ gold_at_call = gold_cand_ids
    /\ gold_first_kept = <<>>
    /\ IdleDev
    /\ IdleAssembler
    /\ IdleRotate

NextSample == SampleCall \/ Draw \/ NextQuery \/ SampleReturn

SpecSample == InitSample /\ [][NextSample]_vars

----------------------------------------------------------------------------
(* make_train_set (data_utils.py:36-83), called once per epoch on the same *)
(* train_data with verbose left at its default, False.                     *)

\* max_pos = int(max_pos_ratio * opt.per_query_nb_examples) (line 58)
max_pos == (ratio_num * per_query_nb_examples) \div RatioDen

\* Mutant: the slice keeps one positive too many.
KeptOffByOne(shuffled) ==
    IF Len(shuffled) > max_pos THEN SubSeq(shuffled, 1, max_pos + 1)
    ELSE shuffled

\* Mutant: the slice keeps the tail instead of the head.
KeptTail(shuffled) ==
    IF Len(shuffled) > max_pos
    THEN SubSeq(shuffled, max_pos + 1, Len(shuffled))
    ELSE shuffled

\* Lines 61-65: what is stored back for a shuffled gold list.
Kept(shuffled) ==
    IF Len(shuffled) > max_pos THEN SubSeq(shuffled, 1, max_pos) ELSE shuffled

\* Line 76: the positives labelled 1 followed by the negatives labelled 0.
xy(q) ==
    [k \in 1..Len(gold_cand_ids[q]) |-> <<gold_cand_ids[q][k], 1>>] \o
    [k \in 1..Len(neg_candidate_ids[q]) |-> <<neg_candidate_ids[q][k], 0>>]

\* Mutant: the labels do not follow the shuffle of the ids.
UnzipMisaligned(pairs, column) ==
    [k \in 1..Len(pairs) |->
        IF column = 1 THEN pairs[k][1] ELSE pairs[Len(pairs) + 1 - k][2]]

\* Lines 77-80: the shuffled pairs unzipped into ids and labels.
Unzip(pairs, column) == [k \in 1..Len(pairs) |-> pairs[k][column]]

\* Lines 44-72 and, inside sample_negative_examples, lines 122-129.
make_train_set_begin ==
    /\ pc = "start"
    /\ UNCHANGED <<cand_ids, labels>>
    /\ IF ratio_num <= 0 \/ ratio_num > RatioDen
       THEN \* line 46
            /\ pc' = "raised"
            /\ outcome' = Raise("ValueError", 46, <<>>, 0, 0)
            /\ UNCHANGED <<gold_cand_ids, epoch, gold_at_call, gold_first_kept, gold_loaded,
                           sampled_indices, buffer_index, i, neg,
                           neg_candidate_ids>>
       ELSE /\ \E shuffled \in ShuffleEach(gold_cand_ids) :
                   gold_cand_ids' =
                       [q \in 1..Len(gold_cand_ids) |-> Kept(shuffled[q])]
            /\ gold_at_call' = gold_cand_ids
            /\ gold_first_kept' =
                   IF epoch = 0 THEN gold_cand_ids' ELSE gold_first_kept
            /\ epoch' = epoch + 1
            /\ IF nb_candidates = 0
               THEN \* np.random.randint(0, size=...) raises ValueError
                    /\ pc' = "raised"
                    /\ outcome' = Raise("ValueError", 126, <<>>, 0, 0)
                    /\ UNCHANGED <<sampled_indices, buffer_index, i, neg,
                                   neg_candidate_ids>>
               ELSE /\ pc' = "sampling"
                    /\ outcome' = [kind |-> "none"]
                    /\ \E buffer \in RandomBuffers(nb_candidates) :
                           EnterSampler(buffer)
    /\ UNCHANGED <<nb_candidates, nb_queries, per_query_nb_examples, ratio_num,
                   gold_loaded, heap,
                   assembler_vars, rotate_vars>>

\* The queries the loop of lines 75-80 cannot build an example set for:
\* gold_cand_ids[i] does not exist (IndexError, line 76), or xy is empty and
\* x,y = zip(*xy) has nothing to unpack (ValueError, line 78).
FailingQueries ==
    {q \in 1..nb_queries : q > nb_pos_lists \/ xy(q) = <<>>}

FirstFailingQuery ==
    CHOOSE q \in FailingQueries : \A r \in FailingQueries : q <= r

\* Line 145 of the sampler, then lines 73-83.
make_train_set_finish ==
    /\ pc = "sampling"
    /\ i = nb_pos_lists
    /\ LeaveSampler
    /\ IF FailingQueries # {}
       THEN \* the loop of lines 75-80 stops at the first query it fails on
            /\ pc' = "raised"
            /\ outcome' = IF FirstFailingQuery > nb_pos_lists
                          THEN Raise("IndexError", 76, <<>>, 0, 0)
                          ELSE Raise("ValueError", 78, <<>>, 0, 0)
            /\ UNCHANGED <<cand_ids, labels>>
       ELSE /\ \E shuffled \in ShuffleEach([q \in 1..nb_queries |-> xy(q)]) :
                /\ cand_ids' = [q \in 1..nb_queries |-> Unzip(shuffled[q], 1)]
                /\ labels' = [q \in 1..nb_queries |-> Unzip(shuffled[q], 2)]
            /\ outcome' = make_q_and_c_dataset(nb_queries, cand_ids',
                                               WithLabels(labels'), FALSE)
            /\ pc' = IF outcome'.kind = "dataset" THEN "returned" ELSE "raised"
    /\ UNCHANGED <<nb_candidates, nb_queries, gold_cand_ids,
                   per_query_nb_examples, ratio_num, neg_candidate_ids, epoch,
                   gold_at_call, gold_first_kept, gold_loaded, heap,
                   assembler_vars, rotate_vars>>

\* The training loop has consumed the dataset of the finished epoch and is
\* about to rebuild it from the same train_data.
next_epoch ==
    /\ pc = "returned"
    /\ epoch < MaxEpochs
    /\ pc' = "start"
    /\ cand_ids' = <<>>
    /\ labels' = <<>>
    /\ neg_candidate_ids' = <<>>
    /\ outcome' = [kind |-> "none"]
    /\ UNCHANGED <<nb_candidates, nb_queries, gold_cand_ids,
                   per_query_nb_examples, ratio_num, sampled_indices,
                   buffer_index, i, neg, epoch, gold_at_call, gold_first_kept, gold_loaded, heap,
                   assembler_vars, rotate_vars>>

\* train_data as load_hd_data leaves it: gold ids index the candidate pool,
\* and the gold file need not have one line per query.
InitTrain ==
    /\ pc = "start"
    /\ nb_candidates \in 0..MaxCand
    /\ nb_queries \in 0..MaxQueries
    /\ gold_cand_ids \in gold_hypernym_candidate_ids(nb_candidates)
    /\ per_query_nb_examples \in 0..MaxBudget
    /\ ratio_num \in 0..(RatioDen + 1)
    /\ sampled_indices = <<>>
    /\ buffer_index = 0
    /\ i = 0
    /\ neg = <<>>
    /\ neg_candidate_ids = <<>>
    /\ cand_ids = <<>>
    /\ labels = <<>>
    /\ outcome = [kind |-> "none"]
    /\ epoch = 0
    /\ gold_loaded = gold_cand_ids
    /\ gold_at_call = gold_cand_ids
    /\ gold_first_kept = <<>>
    /\ IdleDev
    /\ IdleAssembler
    /\ IdleRotate

NextTrain ==
    make_train_set_begin \/ Draw \/ NextQuery \/ make_train_set_finish \/ next_epoch

SpecTrain == InitTrain /\ [][NextTrain]_vars

----------------------------------------------------------------------------
(* make_dev_set (data_utils.py:86-110), one action per loop step.  The     *)
(* lists of candidate ids are objects on a heap, so that a list shared by  *)
(* two queries differs from two equal lists: cand_ids holds addresses.     *)

\* list(range(n))
RangeList(n) == [k \in 1..n |-> k - 1]

\* Mutant: the list itself is appended, not a copy of it.
SliceAlias(src, fresh) == src

\* all_cand_ids[:] is a new list object (line 106): its address is fresh.
SliceCopy(src, fresh) == fresh

\* Lines 103-105: [0] * nb_candidates with a 1 at each gold id.
DevLabels(gold) ==
    [k \in 1..nb_candidates |-> IF (k - 1) \in Range(gold) THEN 1 ELSE 0]

\* Lines 96-101.
make_dev_set_begin ==
    /\ pc = "start"
    /\ pc' = "dev_loop"
    /\ heap' = <<RangeList(nb_candidates)>>     \* all_cand_ids, at address 1
    /\ i' = 0
    /\ cand_ids' = <<>>
    /\ labels' = <<>>
    /\ UNCHANGED <<nb_candidates, nb_queries, gold_cand_ids,
                   per_query_nb_examples, ratio_num, sampled_indices,
                   buffer_index, neg, neg_candidate_ids, outcome, epoch,
                   gold_loaded, gold_at_call, gold_first_kept, assembler_vars,
                   rotate_vars>>

\* Lines 102-107: one iteration of the loop over the queries.
make_dev_set_query ==
    /\ pc = "dev_loop"
    /\ i < nb_queries
    /\ IF i >= Len(gold_cand_ids)
       THEN \* gold_cand_ids[i] does not exist (IndexError, line 104)
            /\ pc' = "raised"
            /\ outcome' = Raise("IndexError", 104, <<>>, 0, 0)
            /\ UNCHANGED <<heap, cand_ids, labels, i>>
       ELSE /\ heap' = Append(heap, heap[1])
            /\ cand_ids' = Append(cand_ids, SliceCopy(1, Len(heap) + 1))
            /\ labels' = Append(labels, DevLabels(gold_cand_ids[i + 1]))
            /\ i' = i + 1
            /\ UNCHANGED <<pc, outcome>>
    /\ UNCHANGED <<nb_candidates, nb_queries, gold_cand_ids,
                   per_query_nb_examples, ratio_num, sampled_indices,
                   buffer_index, neg, neg_candidate_ids, epoch,
                   gold_loaded, gold_at_call, gold_first_kept, assembler_vars,
                   rotate_vars>>

\* Line 110.
make_dev_set_finish ==
    /\ pc = "dev_loop"
    /\ i = nb_queries
    /\ outcome' = make_q_and_c_dataset(
                      nb_queries, [q \in 1..Len(cand_ids) |-> heap[cand_ids[q]]],
                      WithLabels(labels), FALSE)
    /\ pc' = IF outcome'.kind = "dataset" THEN "returned" ELSE "raised"
    /\ UNCHANGED <<nb_candidates, nb_queries, gold_cand_ids,
                   per_query_nb_examples, ratio_num, sampled_indices,
                   buffer_index, i, neg, neg_candidate_ids, cand_ids, labels,
                   epoch, gold_loaded, gold_at_call, gold_first_kept, heap,
                   assembler_vars, rotate_vars>>

\* dev_data as load_hd_data leaves it: gold ids index the candidate pool,
\* and the gold file need not have one line per query.
InitDev ==
    /\ pc = "start"
    /\ nb_candidates \in 0..MaxCand
    /\ nb_queries \in 0..MaxQueries
    /\ gold_cand_ids \in gold_hypernym_candidate_ids(nb_candidates)
    /\ per_query_nb_examples = 0
    /\ ratio_num = RatioDen
    /\ sampled_indices = <<>>
    /\ buffer_index = 0
    /\ i = 0
    /\ neg = <<>>
    /\ neg_candidate_ids = <<>>
    /\ cand_ids = <<>>
    /\ labels = <<>>
    /\ outcome = [kind |-> "none"]
    /\ epoch = 0
    /\ gold_loaded = gold_cand_ids
    /\ gold_at_call = gold_cand_ids
    /\ gold_first_kept = <<>>
    /\ IdleDev
    /\ IdleAssembler
    /\ IdleRotate

NextDev == make_dev_set_begin \/ make_dev_set_query \/ make_dev_set_finish

SpecDev == InitDev /\ [][NextDev]_vars

----------------------------------------------------------------------------
(* Direct calls of make_q_and_c_dataset.                                   *)

\* The label lists that go with candidate lists of the given lengths.
RECURSIVE LabelLists(_, _)
LabelLists(lens, values) ==
    IF lens = <<>> THEN {<<>>}
    ELSE {<<row>> \o rest : row \in [1..Head(lens) -> values],
                            rest \in LabelLists(Tail(lens), values)}

\* The label values tried: the two recognized ones and two others.
LabelValues == {0, 1, 2, 3}

\* Arguments of a call: up to maxq queries and candidate lists of up to
\* maxlen ids each, with candidate_labels None or one label per candidate.
AssemblerInputs(maxq, maxlen, values) ==
    /\ pc = "start"
    /\ nb_queries \in 0..maxq
    /\ \E lens \in UNION {[1..m -> 0..maxlen] : m \in 0..maxq} :
           /\ candidate_ids = [q \in 1..Len(lens) |-> RangeList(lens[q])]
           /\ candidate_labels \in
                  {NoLabels} \cup {WithLabels(l) : l \in LabelLists(lens, values)}
    /\ verbose = FALSE
    /\ outcome = [kind |-> "none"]
    /\ nb_candidates = maxlen
    /\ gold_cand_ids = <<>>
    /\ per_query_nb_examples = 0
    /\ ratio_num = RatioDen
    /\ sampled_indices = <<>>
    /\ buffer_index = 0
    /\ i = 0
    /\ neg = <<>>
    /\ neg_candidate_ids = <<>>
    /\ cand_ids = <<>>
    /\ labels = <<>>
    /\ epoch = 0
    /\ gold_loaded = <<>>
    /\ gold_at_call = <<>>
    /\ gold_first_kept = <<>>
    /\ IdleDev
    /\ IdleRotate

\* One call, with verbose False or True.
make_q_and_c_dataset_call ==
    /\ pc = "start"
    /\ verbose' \in BOOLEAN
    /\ outcome' = make_q_and_c_dataset(nb_queries, candidate_ids,
                                       candidate_labels, verbose')
    /\ pc' = IF outcome'.kind = "dataset" THEN "returned" ELSE "raised"
    /\ UNCHANGED <<nb_candidates, nb_queries, train_vars, sampler_vars, heap,
                   candidate_ids, candidate_labels, rotate_vars>>

InitAssemble == AssemblerInputs(MaxDatasetQueries, MaxListLen, LabelValues)

NextAssemble == make_q_and_c_dataset_call

SpecAssemble == InitAssemble /\ [][NextAssemble]_vars

\* Calls with enough queries for the verbose path to log its examples.
InitVerbose == AssemblerInputs(NbLoggedExamples + 1, 1, {0, 1, 2})

SpecVerbose == InitVerbose /\ [][NextAssemble]_vars

----------------------------------------------------------------------------
(* rotate_checkpoints (data_utils.py:344-371).                             *)
(* A path is a list of characters.  The digits 0..9 stand for themselves,  *)
(* Letter for a letter, Dash for "-" and Slash for "/"; their values keep  *)
(* the order of ASCII, where "-" < "/" < "0" .. "9" < every letter.        *)

Letter == 10

Dash == 0 - 2

Slash == 0 - 1

IsDigit(ch) == ch \in 0..9

\* The argument checkpoint_prefix: a plain word, here of one letter.
checkpoint_prefix == <<Letter>>

\* '{}-'.format(checkpoint_prefix), the text that the glob pattern (line 351)
\* and the regular expression (line 360) both start from.
PrefixDash == checkpoint_prefix \o <<Dash>>

\* The argument output_dir: a directory whose own name has no number after
\* the prefix ("a"), and one whose name has ("a-3").
OutputDirs == {<<Letter>>, <<Letter, Dash, 3>>}

\* The names glob can find after the prefix and the dash: the steps
\* 1..MaxStep, a name without a number ("a-a") and a name that repeats the
\* prefix before a number followed by a letter ("a-a-10a").
Suffixes ==
    {<<d>> : d \in 1..MaxStep} \cup {<<Letter>>, <<Letter, Dash, 1, 0, Letter>>}

\* os.path.join(output_dir, '{prefix}-*') expanded by glob (line 351).
Path(output_dir, suffix) == output_dir \o <<Slash>> \o PrefixDash \o suffix

\* The longest run of digits that text starts with: what the greedy group
\* ([0-9]+) takes, the regex not being anchored at the end of the path.
RECURSIVE LeadingDigits(_)
LeadingDigits(text) ==
    IF text = <<>> \/ ~IsDigit(Head(text)) THEN <<>>
    ELSE <<Head(text)>> \o LeadingDigits(Tail(text))

\* What follows the position at in path.
After(path, at) == SubSeq(path, at + 1, Len(path))

\* The lengths that '.*' can take in re.match('.*{prefix}-([0-9]+)', path):
\* the prefix and the dash follow, then at least one digit.  The expression
\* is applied to the whole path, output_dir included.
MatchStarts(path) ==
    {skip \in 0..(Len(path) - Len(PrefixDash)) :
        /\ SubSeq(path, skip + 1, skip + Len(PrefixDash)) = PrefixDash
        /\ LeadingDigits(After(path, skip + Len(PrefixDash))) # <<>>}

\* Lines 360-361: whether the regex matches the path.
regex_match(path) == MatchStarts(path) # {}

\* regex_match.groups()[0]: '.*' is greedy, so the group is the run of digits
\* after the last place of the path where the prefix, a dash and a digit
\* follow one another.
regex_group(path) ==
    LET skip == CHOOSE a \in MatchStarts(path) : \A b \in MatchStarts(path) : b <= a
    IN  LeadingDigits(After(path, skip + Len(PrefixDash)))

\* int(digits)
RECURSIVE IntOf(_)
IntOf(digits) ==
    IF digits = <<>> THEN 0
    ELSE 10 * IntOf(SubSeq(digits, 1, Len(digits) - 1)) + digits[Len(digits)]

\* Python's order on strings.
RECURSIVE StrLess(_, _)
StrLess(a, b) ==
    IF b = <<>> THEN FALSE
    ELSE IF a = <<>> THEN TRUE
    ELSE IF Head(a) # Head(b) THEN Head(a) < Head(b)
    ELSE StrLess(Tail(a), Tail(b))

\* Python's order on (number, path) tuples.
TupleLess(a, b) == a[1] < b[1] \/ (a[1] = b[1] /\ StrLess(a[2], b[2]))

\* sorted(ordering_and_checkpoint_path) (line 364)
RECURSIVE sorted(_)
sorted(pairs) ==
    IF pairs = {} THEN <<>>
    ELSE LET first == CHOOSE a \in pairs :
                          \A b \in pairs \ {a} : TupleLess(a, b)
         IN  <<first>> \o sorted(pairs \ {first})

\* glob.glob(...): the paths found, checkpoints mapping each to its mtime.
glob_checkpoints == DOMAIN checkpoints

\* Lines 355-362.
ordering_and_checkpoint_path ==
    IF use_mtime
    THEN {<<checkpoints[path], path>> : path \in glob_checkpoints}
    ELSE {<<IntOf(regex_group(path)), path>> :
             path \in {x \in glob_checkpoints : regex_match(x)}}

\* Line 365.
checkpoints_sorted ==
    LET ordered == sorted(ordering_and_checkpoint_path)
    IN  [n \in 1..Len(ordered) |-> ordered[n][2]]

\* Mutant: every path glob returned counts, with or without an order key.
number_to_delete_of_all ==
    Max(0, Cardinality(glob_checkpoints) - save_total_limit)

\* Line 366.
number_of_checkpoints_to_delete ==
    Max(0, Len(checkpoints_sorted) - save_total_limit)

\* Line 367; Python cuts a slice that runs past the end of the list.
checkpoints_to_be_deleted ==
    LET paths == checkpoints_sorted
    IN  SubSeq(paths, 1, Min(number_of_checkpoints_to_delete, Len(paths)))

\* One call.  save_total_limit=None takes the branch of 0 at line 345.
rotate_checkpoints ==
    /\ pc = "start"
    /\ pc' = "returned"
    /\ IF save_total_limit = 0 \/ save_total_limit <= 0
          \/ Cardinality(glob_checkpoints) <= save_total_limit
       THEN UNCHANGED deleted
       ELSE deleted' = checkpoints_to_be_deleted        \* lines 368-371
    /\ UNCHANGED <<nb_candidates, nb_queries, train_vars, sampler_vars, heap,
                   assembler_vars, outcome, checkpoints, save_total_limit,
                   use_mtime>>

\* The directories left on disk by the call.
remaining == glob_checkpoints \ Range(deleted)

\* An output directory after some checkpoints were saved, and the arguments.
InitRotate ==
    /\ pc = "start"
    /\ \E output_dir \in OutputDirs : \E names \in SUBSET Suffixes :
           checkpoints \in
               [{Path(output_dir, suffix) : suffix \in names} -> 1..MaxMTime]
    /\ save_total_limit \in (-1)..MaxLimit
    /\ use_mtime \in BOOLEAN
    /\ deleted = <<>>
    /\ outcome = [kind |-> "none"]
    /\ nb_candidates = 0
    /\ nb_queries = 0
    /\ gold_cand_ids = <<>>
    /\ per_query_nb_examples = 0
    /\ ratio_num = RatioDen
    /\ sampled_indices = <<>>
    /\ buffer_index = 0
    /\ i = 0
    /\ neg = <<>>
    /\ neg_candidate_ids = <<>>
    /\ cand_ids = <<>>
    /\ labels = <<>>
    /\ epoch = 0
    /\ gold_loaded = <<>>
    /\ gold_at_call = <<>>
    /\ gold_first_kept = <<>>
    /\ IdleDev
    /\ IdleAssembler

NextRotate == rotate_checkpoints

SpecRotate == InitRotate /\ [][NextRotate]_vars

----------------------------------------------------------------------------
(* The sampler under fair random draws: a refill of the buffer that starts *)
(* with candidate c happens again and again, for every c of the pool.      *)

DrawRefill(c) == Draw /\ buffer_index' = 0 /\ sampled_indices'[1] = c

FairSpecSample ==
    /\ SpecSample
    /\ WF_vars(NextSample)
    /\ \A c \in 0..(MaxCand - 1) : SF_vars(DrawRefill(c))

----------------------------------------------------------------------------
(* Properties of sample_negative_examples.                                 *)

\* Query q (1-based) needs negatives that do not exist: its positives cover
\* the whole pool while the budget exceeds their number.
Starved(q) ==
    /\ per_query_nb_examples > Len(gold_cand_ids[q])
    /\ Range(gold_cand_ids[q]) = 0..(nb_candidates - 1)

\* C1: no id of the negative list of a query, finished or being filled, is
\* one of the positive ids passed for that query.
C1_NegativesDisjointFromPositives ==
    pc \in {"sampling", "returned"} =>
        /\ \A q \in 1..Len(neg_candidate_ids) :
               Range(neg_candidate_ids[q]) \cap Range(gold_cand_ids[q]) = {}
        /\ i < nb_pos_lists => Range(neg) \cap Range(gold_cand_ids[i + 1]) = {}

\* A call has returned negatives for two queries with positives, having
\* drawn more indices than one buffer holds, the second query having
\* started in the middle of a buffer.
C1_Witness ==
    /\ pc = "returned"
    /\ Len(neg_candidate_ids) = 2
    /\ \A q \in 1..2 : gold_cand_ids[q] # <<>> /\ neg_candidate_ids[q] # <<>>
    /\ gold_cand_ids[1] # gold_cand_ids[2]
    /\ Len(neg_candidate_ids[1]) % buffer_size # 0
    /\ Len(neg_candidate_ids[1]) + Len(neg_candidate_ids[2]) > buffer_size

\* C8: under fair draws a call in which no query is starved ends, and a
\* starved query is never completed.
C8_TerminatesUnlessStarved ==
    /\ []((\A q \in 1..nb_pos_lists : ~Starved(q))
             => <>(pc \in {"returned", "raised"}))
    /\ [](\A q \in 1..Len(neg_candidate_ids) : ~Starved(q))

\* A call has returned negatives for a query that has positives to reject.
C8_Witness ==
    /\ pc = "returned"
    /\ \E q \in 1..Len(neg_candidate_ids) :
           /\ gold_cand_ids[q] # <<>>
           /\ Len(neg_candidate_ids[q]) = per_query_nb_examples - Len(gold_cand_ids[q])
           /\ neg_candidate_ids[q] # <<>>

----------------------------------------------------------------------------
(* Properties of make_train_set.                                           *)

\* The call under way was given a ratio in (0,1] and a budget of at least 1.
ValidTrainArgs ==
    /\ per_query_nb_examples >= 1
    /\ ratio_num >= 1
    /\ ratio_num <= RatioDen

\* floor(max_pos_ratio * B)
FloorRatioBudget == (ratio_num * per_query_nb_examples) \div RatioDen

\* C2: a returned call gives every query exactly B examples, of which
\* min(P, floor(max_pos_ratio * B)) are labelled 1 and the others 0, and the
\* assembly never fails on differing lengths.
C2_TrainExampleSetShape ==
    /\ ~(outcome.kind = "raise" /\ outcome.line = 259)
    /\ (pc = "returned" /\ ValidTrainArgs) =>
           /\ outcome.kind = "dataset"
           /\ Len(cand_ids) = nb_queries
           /\ Len(labels) = nb_queries
           /\ \A q \in 1..nb_queries :
                  LET P == Len(gold_at_call[q])
                      ones == Min(P, FloorRatioBudget)
                  IN  /\ Len(cand_ids[q]) = per_query_nb_examples
                      /\ Len(labels[q]) = per_query_nb_examples
                      /\ Count(labels[q], 1) = ones
                      /\ Count(labels[q], 0) = per_query_nb_examples - ones

\* A returned call in which a query had more gold ids than the ratio allows
\* and another had no more than it allows.
C2_Witness ==
    /\ pc = "returned"
    /\ ValidTrainArgs
    /\ \E q \in 1..nb_queries :
           /\ Len(gold_at_call[q]) > FloorRatioBudget
           /\ Count(labels[q], 1) = FloorRatioBudget
           /\ FloorRatioBudget >= 1
    /\ \E q \in 1..nb_queries :
           /\ Len(gold_at_call[q]) <= FloorRatioBudget
           /\ Count(labels[q], 1) = Len(gold_at_call[q])

\* The ids labelled 1 in the example set of query q.
LabelledOne(q) == {cand_ids[q][j] : j \in {k \in 1..Len(cand_ids[q]) : labels[q][k] = 1}}

\* C9: once a call has shuffled and truncated, train_data holds for each
\* query exactly the positives that call kept; every later call works on the
\* set the first call kept; the queries and the pool stay as loaded.
C9_TrainDataKeepsFirstTruncation ==
    epoch >= 1 =>
        /\ Len(gold_cand_ids) = Len(gold_loaded)
        /\ \A q \in 1..Len(gold_loaded) :
               /\ Len(gold_cand_ids[q]) = Min(Len(gold_at_call[q]), FloorRatioBudget)
               /\ \A c \in Range(gold_cand_ids[q]) :
                      Count(gold_cand_ids[q], c) <= Count(gold_at_call[q], c)
               /\ \A c \in Range(gold_first_kept[q]) :
                      Count(gold_cand_ids[q], c) = Count(gold_first_kept[q], c)
               /\ Range(gold_cand_ids[q]) = Range(gold_first_kept[q])
               /\ Len(gold_first_kept[q]) = Min(Len(gold_loaded[q]), FloorRatioBudget)
               /\ (pc = "returned" /\ q <= nb_queries) =>
                      LabelledOne(q) = Range(gold_first_kept[q])

\* A second call has returned on train_data whose first call discarded a
\* positive of some query.
C9_Witness ==
    /\ pc = "returned"
    /\ epoch = 2
    /\ \E q \in 1..nb_queries :
           /\ Len(gold_first_kept[q]) < Len(gold_loaded[q])
           /\ gold_first_kept[q] # <<>>
           /\ LabelledOne(q) = Range(gold_first_kept[q])

\* C10: in a returned example set the label at a position is 1 exactly when
\* the id at that position is one of the positives kept for the query.
C10_LabelsAlignedWithIds ==
    pc = "returned" =>
        \A q \in 1..nb_queries :
            /\ Len(labels[q]) = Len(cand_ids[q])
            /\ \A j \in 1..Len(cand_ids[q]) :
                   labels[q][j] = 1 <=> cand_ids[q][j] \in Range(gold_cand_ids[q])

\* A gold id that truncation discarded was sampled as a negative: it is in
\* the example set of its query with label 0, next to a kept positive.
C10_Witness ==
    /\ pc = "returned"
    /\ \E q \in 1..nb_queries :
           \E j, k \in 1..Len(cand_ids[q]) :
               /\ labels[q][j] = 0
               /\ cand_ids[q][j] \in Range(gold_loaded[q]) \ Range(gold_cand_ids[q])
               /\ labels[q][k] = 1

----------------------------------------------------------------------------
(* Properties of make_dev_set.                                             *)

\* C3: the candidate list of every query is 0, 1, ..., nb_candidates-1, a
\* list object of its own; the label at position c is 1 exactly when c is a
\* gold id of the query; the dataset returned holds these lists.
C3_DevSetEnumeratesPool ==
    pc \in {"dev_loop", "returned", "raised"} =>
        /\ \A q \in 1..Len(cand_ids) :
               /\ Len(heap[cand_ids[q]]) = nb_candidates
               /\ \A c \in 0..(nb_candidates - 1) :
                      /\ heap[cand_ids[q]][c + 1] = c
                      /\ labels[q][c + 1] = 1 <=> c \in Range(gold_cand_ids[q])
                      /\ labels[q][c + 1] = 0 <=> c \notin Range(gold_cand_ids[q])
               /\ Len(labels[q]) = nb_candidates
               /\ cand_ids[q] # 1
               /\ \A r \in 1..Len(cand_ids) : r # q => cand_ids[r] # cand_ids[q]
        /\ pc = "raised" =>
               /\ Len(gold_cand_ids) < nb_queries
               /\ Len(cand_ids) = Len(gold_cand_ids)
        /\ pc = "returned" =>
               /\ Len(cand_ids) = nb_queries
               /\ outcome.kind = "dataset"
               /\ outcome.candidate_ids = [q \in 1..nb_queries |-> heap[cand_ids[q]]]
               /\ outcome.candidate_labels = labels

\* A dev set has been returned for two queries with different gold ids over
\* a pool that holds candidates gold for neither.
C3_Witness ==
    /\ pc = "returned"
    /\ nb_queries = 2
    /\ nb_candidates >= 3
    /\ gold_cand_ids[1] # <<>>
    /\ gold_cand_ids[2] # <<>>
    /\ labels[1] # labels[2]
    /\ \E c \in 1..nb_candidates : labels[1][c] = 0 /\ labels[2][c] = 0

----------------------------------------------------------------------------
(* Properties of make_q_and_c_dataset.                                     *)

\* The lengths of the candidate lists passed.
ListLengths == {Len(candidate_ids[q]) : q \in 1..Len(candidate_ids)}

\* The call has ended with the ValueError of line 259 / of line 272.
ShapeMismatch ==
    pc = "raised" /\ outcome.error = "ValueError" /\ outcome.line = 259

InvalidLabel ==
    pc = "raised" /\ outcome.error = "ValueError" /\ outcome.line = 272

\* All labels passed, query after query; None passes none.
AllLabels == Flatten(candidate_labels.lists)

\* C4: with one candidate list per query, the call raises the ValueError of
\* line 259 exactly when the lists differ in length; the error lists each
\* length found once, with the number of lists of that length; no label has
\* been examined and no query encoded by then.
C4_ShapeMismatchRaised ==
    (pc # "start" /\ nb_queries = Len(candidate_ids)) =>
        /\ ShapeMismatch <=> Cardinality(ListLengths) > 1
        /\ ShapeMismatch =>
               /\ {outcome.detail[n][1] : n \in 1..Len(outcome.detail)} = ListLengths
               /\ Len(outcome.detail) = Cardinality(ListLengths)
               /\ \A n \in 1..Len(outcome.detail) :
                      outcome.detail[n][2] =
                          Cardinality({q \in 1..Len(candidate_ids) :
                                          Len(candidate_ids[q]) = outcome.detail[n][1]})
               /\ outcome.labels_examined = 0
               /\ outcome.encoded = 0

\* Lists of two lengths, one of them twice, were passed with labels of
\* which one is unrecognized, and the call has raised.
C4_Witness ==
    /\ pc = "raised"
    /\ nb_queries = Len(candidate_ids)
    /\ Cardinality(ListLengths) = 2
    /\ \E q, r \in 1..Len(candidate_ids) :
           q # r /\ Len(candidate_ids[q]) = Len(candidate_ids[r])
    /\ \E k \in 1..Len(AllLabels) : AllLabels[k] \notin {0, 1}
    /\ ShapeMismatch

\* C5 as stated: whenever a label is neither 0 nor 1 the call raises the
\* ValueError of line 272, naming the first such label, before any query is
\* encoded.
C5_AnyBadLabelRaisesInvalidLabel ==
    (/\ pc # "start"
     /\ nb_queries = Len(candidate_ids)
     /\ \E k \in 1..Len(AllLabels) : AllLabels[k] \notin {0, 1}) =>
        /\ InvalidLabel
        /\ outcome.encoded = 0

\* C5 amended: a dataset is returned only if every label is 0 or 1; when
\* the candidate lists have one length and a label is neither 0 nor 1, the
\* call raises the ValueError of line 272 naming the first such label in
\* query order, before any query is encoded; when the lists differ in
\* length the ValueError of line 259 is raised instead.
C5_BadLabelRaisesUnlessShapeMismatch ==
    (pc # "start" /\ nb_queries = Len(candidate_ids)) =>
        LET badAt == {k \in 1..Len(AllLabels) : AllLabels[k] \notin {0, 1}}
        IN  /\ pc = "returned" => badAt = {}
            /\ InvalidLabel <=> (badAt # {} /\ Cardinality(ListLengths) <= 1)
            /\ InvalidLabel =>
                   /\ \E k \in badAt :
                          /\ \A m \in badAt : k <= m
                          /\ outcome.detail = <<AllLabels[k]>>
                          /\ outcome.labels_examined = k
                   /\ outcome.encoded = 0
            /\ (badAt # {} /\ Cardinality(ListLengths) > 1) => ShapeMismatch

\* Labels with two different unrecognized values were passed with lists of
\* one length, and the call has raised.
C5_Witness ==
    /\ InvalidLabel
    /\ nb_queries = Len(candidate_ids)
    /\ \E k, m \in 1..Len(AllLabels) :
           /\ k < m
           /\ AllLabels[k] \notin {0, 1}
           /\ AllLabels[m] \notin {0, 1}
           /\ AllLabels[k] # AllLabels[m]
    /\ \E k \in 1..Len(AllLabels) : AllLabels[k] = 1

\* C6: a call ends as the same call with verbose=False ends: it returns the
\* same dataset or raises the same error.
C6_VerboseIsObservational ==
    pc # "start" =>
        Observed(outcome) =
            Observed(make_q_and_c_dataset(nb_queries, candidate_ids,
                                          candidate_labels, FALSE))

----------------------------------------------------------------------------
(* Properties of rotate_checkpoints.                                       *)

\* The places of a path where the prefix, a dash and a digit follow one
\* another: the index of the digit.
NumberPlaces(path) ==
    {at \in 1..Len(path) :
        /\ IsDigit(path[at])
        /\ at > Len(PrefixDash)
        /\ \A k \in 1..Len(PrefixDash) :
               path[at - Len(PrefixDash) + k - 1] = PrefixDash[k]}

\* The number written from the place at of a path on.
NumberAt(path, at) ==
    LET end == CHOOSE e \in at..Len(path) :
                   /\ \A k \in at..e : IsDigit(path[k])
                   /\ e = Len(path) \/ ~IsDigit(path[e + 1])
    IN  IntOf(SubSeq(path, at, end))

\* The directories that have an order key: all of them by modification
\* time, and by step those whose path has a number after the prefix
\* somewhere, in output_dir or in the name.
Keyed == IF use_mtime THEN glob_checkpoints
         ELSE {path \in glob_checkpoints : NumberPlaces(path) # {}}

\* The key a keyed directory is ordered by: its modification time, or the
\* number after the last "{prefix}-" of its path that a digit follows.
OrderKey(path) ==
    IF use_mtime THEN checkpoints[path]
    ELSE NumberAt(path, CHOOSE at \in NumberPlaces(path) :
                            \A other \in NumberPlaces(path) : other <= at)

\* C7 as stated: with n matching directories and limit L, nothing is deleted
\* if L <= 0 or n <= L; otherwise exactly the n - L oldest are deleted and
\* the L newest are left, also when some names carry no number.
C7_DeletesAllButNewestOfAll ==
    pc = "returned" =>
        LET n == Cardinality(glob_checkpoints)
        IN  IF save_total_limit <= 0 \/ n <= save_total_limit
            THEN deleted = <<>>
            ELSE /\ Len(deleted) = n - save_total_limit
                 /\ Cardinality(remaining) = save_total_limit
                 /\ \A d \in Range(deleted) : \A k \in remaining :
                        d \in Keyed /\ k \in Keyed /\ OrderKey(d) <= OrderKey(k)

\* C7 amended: nothing is deleted if L <= 0 or n <= L; otherwise, with m the
\* number of directories that have an order key (all n by modification time;
\* by step those whose path, output_dir included, has "{prefix}-" followed by
\* a digit, keyed by the number after the last such place), exactly the
\* max(0, m - L) keyed directories smallest by (key, path) are deleted,
\* smallest first, and the min(m, L) others are left; a directory without a
\* key is never deleted; so by step exactly n - L are deleted when every
\* path has a number, and fewer when some have none.
C7_DeletesAllButNewestOfKeyed ==
    pc = "returned" =>
        LET n == Cardinality(glob_checkpoints)
            m == Cardinality(Keyed)
        IN  IF save_total_limit <= 0 \/ n <= save_total_limit
            THEN deleted = <<>>
            ELSE /\ Len(deleted) = Max(0, m - save_total_limit)
                 /\ Cardinality(Range(deleted)) = Len(deleted)
                 /\ Range(deleted) \subseteq Keyed
                 /\ (glob_checkpoints \ Keyed) \subseteq remaining
                 /\ Cardinality(remaining \cap Keyed) = Min(m, save_total_limit)
                 /\ \A d \in Range(deleted) : \A k \in remaining \cap Keyed :
                        \/ OrderKey(d) < OrderKey(k)
                        \/ OrderKey(d) = OrderKey(k) /\ StrLess(d, k)
                 /\ \A a, b \in 1..Len(deleted) :
                        a < b =>
                            \/ OrderKey(deleted[a]) < OrderKey(deleted[b])
                            \/ /\ OrderKey(deleted[a]) = OrderKey(deleted[b])
                               /\ StrLess(deleted[a], deleted[b])
                 /\ m = n => Len(deleted) = n - save_total_limit
                 /\ m < n => Len(deleted) < n - save_total_limit
                 /\ use_mtime => m = n

\* The call on prefix-1 .. prefix-4 and prefix-a with limit 2 and ordering by
\* step, in an output directory without a number: 1 and 2 are gone, in this
\* order, and prefix-a, which has no key, is left with 3 and 4.
C7_Witness ==
    /\ pc = "returned"
    /\ ~use_mtime
    /\ save_total_limit = 2
    /\ glob_checkpoints =
           {Path(<<Letter>>, suffix) : suffix \in {<<d>> : d \in 1..4} \cup {<<Letter>>}}
    /\ deleted = <<Path(<<Letter>>, <<1>>), Path(<<Letter>>, <<2>>)>>
    /\ Path(<<Letter>>, <<Letter>>) \in remaining \ Keyed

====
